---- MODULE Spec2Model ----
(***************************************************************************)
(* A model of CarCheckerAI: the text helpers (chunk_text,                  *)
(* _compress_for_single_request), the result normaliser (normalize_results,*)
(* safe_get_url, safe_get_markdown) and the orchestrator                   *)
(* search_and_summarize with its completion-backend call budget.           *)
(*                                                                         *)
(* Python strings are sequences of one-character strings.  Python values   *)
(* of dynamic type are records tagged by a field `kind`.                   *)
(***************************************************************************)
EXTENDS Integers, Sequences, FiniteSets, TLC

(***************************************************************************)
(* Bounds of the model.                                                    *)
(***************************************************************************)
MaxLen == 6
MaxBudget == 6
NegBudget == 2

(***************************************************************************)
(* Python string primitives.                                               *)
(***************************************************************************)
Whitespace == {" ", "\n"}

Max2(a, b) == IF a >= b THEN a ELSE b

Min2(a, b) == IF a <= b THEN a ELSE b

\* A slice bound as Python normalises it: negative counts from the end,
\* and the result is clamped to 0..len.
SliceIndex(n, len) == IF n < 0 THEN Max2(len + n, 0) ELSE Min2(n, len)

\* s[a:b]
PySlice(s, a, b) ==
    LET lo == SliceIndex(a, Len(s))
        hi == SliceIndex(b, Len(s))
    IN  IF lo >= hi THEN <<>> ELSE SubSeq(s, lo + 1, hi)

\* s[:b]
PySliceTo(s, b) == PySlice(s, 0, b)

\* s[a:]
PySliceFrom(s, a) ==
    LET lo == SliceIndex(a, Len(s))
    IN  IF lo >= Len(s) THEN <<>> ELSE SubSeq(s, lo + 1, Len(s))

RECURSIVE lstrip(_)
lstrip(s) ==
    IF s = <<>> THEN <<>>
    ELSE IF Head(s) \in Whitespace THEN lstrip(Tail(s)) ELSE s

RECURSIVE rstrip(_)
rstrip(s) ==
    IF s = <<>> THEN <<>>
    ELSE IF s[Len(s)] \in Whitespace THEN rstrip(SubSeq(s, 1, Len(s) - 1)) ELSE s

strip(s) == rstrip(lstrip(s))

\* s.rfind("\n\n"): the highest 0-based index where the pair starts, or -1.
rfind_para(s) ==
    LET hits == {i \in 1..(Len(s) - 1) : s[i] = "\n" /\ s[i + 1] = "\n"}
    IN  IF hits = {} THEN -1
        ELSE (CHOOSE i \in hits : \A j \in hits : j <= i) - 1

(***************************************************************************)
(* State of the text helpers: the argument, the local variable `text`, the *)
(* budget, the list `chunks`, the returned value and the position in the   *)
(* function body.                                                          *)
(***************************************************************************)
VARIABLES arg_text, text, max_chars, chunks, result, fpc

textVars == <<arg_text, text, max_chars, chunks, result, fpc>>

(***************************************************************************)
(* State of a call of the result normaliser: the argument, the function    *)
(* called and what it returned (Raised when an exception left it).         *)
(***************************************************************************)
VARIABLES n_input, n_op, n_out

normVars == <<n_input, n_op, n_out>>

(***************************************************************************)
(* State of a run of search_and_summarize: its arguments, its locals, the  *)
(* position in its body, and the traffic with the two backends (the calls  *)
(* issued so far in order, and how many have not yet returned).            *)
(***************************************************************************)
VARIABLES pc, max_genai_calls, searchLimit, specLimit, doc_limit,
          results, items, SpecsItems, idx, cur_url, summaries,
          specs_texts, specs_urls, spec_text, specs_structured, final_text,
          calls, inflight, doc_texts, error

pipeVars == <<pc, max_genai_calls, searchLimit, specLimit, doc_limit,
              results, items, SpecsItems, idx, cur_url, summaries,
              specs_texts, specs_urls, spec_text, specs_structured, final_text,
              calls, inflight, doc_texts, error>>

vars == <<arg_text, text, max_chars, chunks, result, fpc, n_input, n_op, n_out,
          pc, max_genai_calls, searchLimit, specLimit, doc_limit,
          results, items, SpecsItems, idx, cur_url, summaries,
          specs_texts, specs_urls, spec_text, specs_structured, final_text,
          calls, inflight, doc_texts, error>>

PipeIdle ==
    /\ pc = "idle"
    /\ max_genai_calls = 0
    /\ searchLimit = 0
    /\ specLimit = 0
    /\ doc_limit = 0
    /\ results = [kind |-> "none"]
    /\ items = [kind |-> "none"]
    /\ SpecsItems = [kind |-> "none"]
    /\ idx = 0
    /\ cur_url = "<None>"
    /\ summaries = <<>>
    /\ specs_texts = <<>>
    /\ specs_urls = <<>>
    /\ spec_text = "<absent>"
    /\ specs_structured = [kind |-> "none"]
    /\ final_text = "<absent>"
    /\ calls = <<>>
    /\ inflight = 0
    /\ doc_texts = <<>>
    /\ error = "none"

TextIdle ==
    /\ arg_text = <<>>
    /\ text = <<>>
    /\ max_chars = 0
    /\ chunks = <<>>
    /\ result = <<>>
    /\ fpc = "idle"

NormIdle ==
    /\ n_input = [kind |-> "other", truthy |-> FALSE]
    /\ n_op = "idle"
    /\ n_out = "<None>"

RECURSIVE SeqsUpTo(_, _)
SeqsUpTo(S, n) ==
    IF n = 0 THEN {<<>>}
    ELSE LET shorter == SeqsUpTo(S, n - 1)
         IN  shorter \cup {Append(s, c) : s \in {t \in shorter : Len(t) = n - 1}, c \in S}

ChunkAlphabet == {"a", " ", "\n"}

(***************************************************************************)
(* chunk_text                                                              *)
(***************************************************************************)
MaxChunks == MaxLen + 1

\* ChunkOf taking one character too many.
ChunkOf_long(t, m) ==
    LET chunk == PySliceTo(t, m + 1)
        cut == rfind_para(chunk)
    IN  IF cut > m \div 2 THEN PySliceTo(t, cut) ELSE chunk

\* The candidate chunk of one loop iteration: the first max_chars
\* characters, cut back to the last paragraph break when that break lies
\* past the halfway point.
ChunkOf(t, m) ==
    LET chunk == PySliceTo(t, m)
        cut == rfind_para(chunk)
    IN  IF cut > m \div 2 THEN PySliceTo(t, cut) ELSE chunk

ChunkInit ==
    /\ arg_text \in SeqsUpTo(ChunkAlphabet, MaxLen)
    /\ max_chars \in (0 - NegBudget)..MaxBudget
    /\ text = <<>>
    /\ chunks = <<>>
    /\ result = <<>>
    /\ fpc = "call"
    /\ NormIdle
    /\ PipeIdle

ChunkEnter ==
    /\ fpc = "call"
    /\ text' = strip(arg_text)
    /\ fpc' = IF strip(arg_text) = <<>> THEN "done" ELSE "loop"
    /\ UNCHANGED <<arg_text, max_chars, chunks, result, normVars, pipeVars>>

ChunkIter ==
    /\ fpc = "loop"
    /\ text # <<>>
    /\ Len(chunks) < MaxChunks
    /\ LET chunk == ChunkOf(text, max_chars)
       IN  /\ chunks' = Append(chunks, strip(chunk))
           /\ text' = lstrip(PySliceFrom(text, Len(chunk)))
    /\ UNCHANGED <<arg_text, max_chars, result, fpc, normVars, pipeVars>>

ChunkReturn ==
    /\ fpc = "loop"
    /\ text = <<>>
    /\ result' = chunks
    /\ fpc' = "done"
    /\ UNCHANGED <<arg_text, text, max_chars, chunks, normVars, pipeVars>>

ChunkNext == ChunkEnter \/ ChunkIter \/ ChunkReturn

SpecChunk == ChunkInit /\ [][ChunkNext]_vars

(***************************************************************************)
(* C7: for max_chars >= 1, chunk_text returns chunks none of which is      *)
(* longer than max_chars, and the chunks in order reconstruct the trimmed  *)
(* input: its non-whitespace characters appear exactly once, in order, and *)
(* the only characters dropped are whitespace between consecutive chunks.  *)
(***************************************************************************)
RECURSIVE Concat(_)
Concat(ss) == IF ss = <<>> THEN <<>> ELSE Head(ss) \o Concat(Tail(ss))

RECURSIVE NonWhitespace(_)
NonWhitespace(s) ==
    IF s = <<>> THEN <<>>
    ELSE IF Head(s) \in Whitespace THEN NonWhitespace(Tail(s))
         ELSE <<Head(s)>> \o NonWhitespace(Tail(s))

IsPrefix(p, s) == Len(p) <= Len(s) /\ SubSeq(s, 1, Len(p)) = p

\* t is cs[1] w1 cs[2] w2 ... cs[n] for whitespace-only strings w1, w2, ...
RECURSIVE GapsAreWhitespace(_, _)
GapsAreWhitespace(t, cs) ==
    IF cs = <<>> THEN t = <<>>
    ELSE /\ IsPrefix(Head(cs), t)
         /\ LET rest == SubSeq(t, Len(Head(cs)) + 1, Len(t))
            IN  IF Len(cs) = 1 THEN rest = <<>>
                ELSE \E k \in 0..Len(rest) :
                        /\ \A i \in 1..k : rest[i] \in Whitespace
                        /\ GapsAreWhitespace(SubSeq(rest, k + 1, Len(rest)), Tail(cs))

ChunksBoundedAndReconstruct ==
    (fpc = "done" /\ max_chars >= 1) =>
        /\ \A i \in 1..Len(result) : Len(result[i]) <= max_chars
        /\ NonWhitespace(Concat(result)) = NonWhitespace(arg_text)
        /\ GapsAreWhitespace(strip(arg_text), result)

\* A run that cut at a paragraph break and dropped whitespace at a boundary.
ChunksWitness ==
    /\ fpc = "done"
    /\ max_chars >= 1
    /\ Len(result) >= 2
    /\ Len(Concat(result)) < Len(strip(arg_text))
    /\ rfind_para(PySliceTo(strip(arg_text), max_chars)) > max_chars \div 2

(***************************************************************************)
(* C6: chunk_text terminates for every max_chars, zero and negative        *)
(* included: each loop iteration strictly shortens the remaining text.     *)
(***************************************************************************)
ChunkIterationShortensText ==
    [][(fpc = "loop" /\ text # <<>>) => Len(text') < Len(text)]_vars

(***************************************************************************)
(* _compress_for_single_request                                            *)
(***************************************************************************)
SepStart == <<"\n", "\n", "-", "-", "S", "T", "A", "R", "T", "-", "-", "\n", "\n">>

SepMiddle == <<"\n", "\n", "-", "-", "M", "I", "D", "D", "L", "E", "-", "-", "\n", "\n">>

SepEnd == <<"\n", "\n", "-", "-", "E", "N", "D", "-", "-", "\n", "\n">>

compress_for_single_request(t, m) ==
    IF t = <<>> THEN <<>>
    ELSE LET stripped == strip(t)
             part == m \div 3
             start == PySliceTo(stripped, part)
             middle_index == Len(stripped) \div 2
             middle == PySlice(stripped, middle_index - part \div 2,
                               middle_index + part \div 2)
             end == PySliceFrom(stripped, -part)
         IN  IF Len(stripped) <= m THEN stripped
             ELSE SepStart \o start \o SepMiddle \o middle \o SepEnd \o end

CompressInit ==
    /\ arg_text \in SeqsUpTo(ChunkAlphabet, MaxLen)
    /\ max_chars \in 0..MaxBudget
    /\ text = <<>>
    /\ chunks = <<>>
    /\ result = <<>>
    /\ fpc = "call"
    /\ NormIdle
    /\ PipeIdle

Compress ==
    /\ fpc = "call"
    /\ text' = IF arg_text = <<>> THEN arg_text ELSE strip(arg_text)
    /\ result' = compress_for_single_request(arg_text, max_chars)
    /\ fpc' = "done"
    /\ UNCHANGED <<arg_text, max_chars, chunks, normVars, pipeVars>>

CompressNext == Compress

SpecCompress == CompressInit /\ [][CompressNext]_vars

(***************************************************************************)
(* C5: for max_chars >= 0, _compress_for_single_request returns the        *)
(* trimmed input when its length is at most max_chars, and otherwise a     *)
(* string of at most max_chars characters plus the three separators that   *)
(* holds the --START--, --MIDDLE-- and --END-- markers in that order.      *)
(***************************************************************************)
MarkerStart == <<"-", "-", "S", "T", "A", "R", "T", "-", "-">>

MarkerMiddle == <<"-", "-", "M", "I", "D", "D", "L", "E", "-", "-">>

MarkerEnd == <<"-", "-", "E", "N", "D", "-", "-">>

OccursAt(m, s, i) == i + Len(m) - 1 <= Len(s) /\ SubSeq(s, i, i + Len(m) - 1) = m

MarkersInOrder(s) ==
    \E i, j, k \in 1..Len(s) :
        /\ OccursAt(MarkerStart, s, i)
        /\ OccursAt(MarkerMiddle, s, j)
        /\ OccursAt(MarkerEnd, s, k)
        /\ i + Len(MarkerStart) <= j
        /\ j + Len(MarkerMiddle) <= k

SeparatorOverhead == Len(SepStart) + Len(SepMiddle) + Len(SepEnd)

CompressContract ==
    fpc = "done" =>
        IF Len(strip(arg_text)) <= max_chars
        THEN result = strip(arg_text)
        ELSE /\ Len(result) <= max_chars + SeparatorOverhead
             /\ MarkersInOrder(result)

(***************************************************************************)
(* Python values of the result normaliser.  A scalar field is Absent (the  *)
(* key or attribute is missing), PyNone, the empty string or a non-empty   *)
(* string; Raised stands for an exception leaving the function.            *)
(***************************************************************************)
Absent == "<absent>"

PyNone == "<None>"

Raised == "<raised>"

Truthy(v) == v \notin {Absent, PyNone, ""}

\* d.get(k) and getattr(o, k, None): a missing field reads as None.
Get(v) == IF v = Absent THEN PyNone ELSE v

\* d.get(k, ""): a missing field reads as the default.
GetOrEmpty(v) == IF v = Absent THEN "" ELSE v

UrlFieldValues(name) == {Absent, "", name}

MdFieldValues(name) == {Absent, PyNone, "", name}

NoField == [kind |-> "absent"]

NoneField == [kind |-> "none"]

\* A truthy value that is neither a dict nor an object with the fields
\* looked up: a string, a number, a list.
OtherField == [kind |-> "other"]

DictMetadata ==
    [kind : {"dict"},
     sourceURL : UrlFieldValues("metadata.sourceURL"),
     url : UrlFieldValues("metadata.url"),
     source_url : UrlFieldValues("metadata.source_url")]

DictData == [kind : {"dict"}, markdown : MdFieldValues("data.markdown")]

DictItems ==
    [kind : {"dict"},
     url : UrlFieldValues("url"),
     sourceURL : UrlFieldValues("sourceURL"),
     metadata : {NoField, NoneField, OtherField} \cup DictMetadata,
     markdown : MdFieldValues("markdown"),
     data : {NoField, NoneField, OtherField} \cup DictData]

\* bool(item) of a dict: an empty dict is falsy.
DictIsEmpty(d) ==
    /\ d.url = Absent
    /\ d.sourceURL = Absent
    /\ d.metadata = NoField
    /\ d.markdown = Absent
    /\ d.data = NoField

\* (d.get("metadata") or {}).get(k) for the value v stored under k.
MetadataGet(md, k) ==
    IF md.kind \in {"absent", "none"} THEN PyNone
    ELSE IF md.kind = "dict" THEN Get(md[k])
    ELSE Raised

\* a or b or c or d or e, evaluated left to right: the first truthy operand,
\* otherwise the last one; an operand that raises ends the evaluation.
RECURSIVE OrChain(_)
OrChain(vs) ==
    IF Len(vs) = 1 THEN Head(vs)
    ELSE IF Head(vs) = Raised THEN Raised
    ELSE IF Truthy(Head(vs)) THEN Head(vs)
    ELSE OrChain(Tail(vs))

dict_url(d) ==
    OrChain(<<Get(d.url), Get(d.sourceURL),
              MetadataGet(d.metadata, "sourceURL"),
              MetadataGet(d.metadata, "url"),
              MetadataGet(d.metadata, "source_url")>>)

\* (d.get("data") or {}).get("markdown", "")
DataGetMarkdown(data) ==
    IF data.kind \in {"absent", "none"} THEN ""
    ELSE IF data.kind = "dict" THEN GetOrEmpty(data.markdown)
    ELSE Raised

dict_markdown(d) ==
    OrChain(<<Get(d.markdown), DataGetMarkdown(d.data), "">>)

\* The dicts an object's model_dump() returns in the model.
DumpDicts ==
    {d \in DictItems :
        /\ d.url = Absent
        /\ d.sourceURL = Absent
        /\ d.markdown \in {Absent, "markdown"}
        /\ d.data \in {NoField, OtherField}
        /\ d.metadata \in {NoField, OtherField,
                           [kind |-> "dict", sourceURL |-> Absent,
                            url |-> "metadata.url", source_url |-> ""]}}

ObjMetadata ==
    [kind : {"obj"},
     source_url : UrlFieldValues("metadata.source_url"),
     sourceURL : {Absent, "metadata.sourceURL"},
     url : {Absent, "metadata.url"},
     og_url : UrlFieldValues("metadata.og_url")]

\* dump: no model_dump/dict attribute, a model_dump that raises, or the
\* dict it returns.
ObjItems ==
    [kind : {"obj"},
     url : UrlFieldValues("url"),
     sourceURL : UrlFieldValues("sourceURL"),
     metadata : {NoField, NoneField, OtherField} \cup ObjMetadata,
     markdown : MdFieldValues("markdown"),
     dump : {NoField, [kind |-> "raises"]} \cup DumpDicts]

\* Neither a dict nor an object with any of the fields: a number, a string,
\* a list, None.
OtherItems == [kind : {"other"}, truthy : BOOLEAN]

_model_to_dict(obj) ==
    IF obj.dump.kind = "dict" THEN obj.dump
    ELSE [kind |-> "dict", url |-> Absent, sourceURL |-> Absent, metadata |-> NoField,
          markdown |-> Absent, data |-> NoField]

safe_get_markdown(item) ==
    IF item.kind = "other" THEN ""
    ELSE IF item.kind = "dict"
    THEN IF DictIsEmpty(item) THEN "" ELSE dict_markdown(item)
    ELSE IF item.markdown \notin {Absent, PyNone} THEN item.markdown
    ELSE IF item.dump # NoField THEN dict_markdown(_model_to_dict(item))
    ELSE ""

safe_get_url(item) ==
    IF item.kind = "other" THEN PyNone
    ELSE IF item.kind = "dict"
    THEN IF DictIsEmpty(item) THEN PyNone ELSE dict_url(item)
    ELSE LET url == OrChain(<<Get(item.url), Get(item.sourceURL)>>)
             md == item.metadata
         IN  IF Truthy(url) THEN url
             ELSE IF md.kind = "obj"
             THEN OrChain(<<Get(md.source_url), Get(md.sourceURL), Get(md.url),
                            Get(md.og_url)>>)
             ELSE IF md.kind = "other" THEN PyNone
             ELSE IF item.dump # NoField THEN dict_url(_model_to_dict(item))
             ELSE PyNone

(***************************************************************************)
(* normalize_results.  A response is a list, a dict with the keys `data`   *)
(* and `web` (and possibly others), an object with a `web` attribute or a  *)
(* model_dump, or some other value.                                        *)
(***************************************************************************)
PlainItem ==
    [kind |-> "dict", url |-> "url", sourceURL |-> Absent, metadata |-> NoField,
     markdown |-> "markdown", data |-> NoField]

NestedItem ==
    [kind |-> "dict", url |-> Absent, sourceURL |-> Absent,
     metadata |-> [kind |-> "dict", sourceURL |-> "metadata.sourceURL", url |-> Absent,
                   source_url |-> Absent],
     markdown |-> Absent,
     data |-> [kind |-> "dict", markdown |-> "data.markdown"]]

NoMarkdownItem ==
    [kind |-> "dict", url |-> "url", sourceURL |-> Absent, metadata |-> NoField,
     markdown |-> "", data |-> NoField]

ListOf(elems) == [kind |-> "list", items |-> elems]

EmptyList == ListOf(<<>>)

SampleLists == {EmptyList, ListOf(<<PlainItem>>), ListOf(<<NestedItem, NoMarkdownItem>>)}

InnerDicts ==
    [kind : {"dict"}, data : {NoField}, web : {NoField, NoneField} \cup SampleLists,
     extra : BOOLEAN]

DictResponses ==
    [kind : {"dict"},
     data : {NoField, NoneField} \cup SampleLists \cup InnerDicts,
     web : {NoField, NoneField} \cup SampleLists,
     extra : BOOLEAN]

ObjResponses ==
    [kind : {"obj"},
     web : {NoField, NoneField} \cup SampleLists,
     dump : {NoField, [kind |-> "raises"], OtherField} \cup
            {d \in DictResponses : d.data \notin InnerDicts /\ ~d.extra}]

Responses == SampleLists \cup DictResponses \cup ObjResponses \cup {OtherField}

\* bool(v) of a value held by a response.
TruthyValue(v) ==
    IF v.kind \in {"absent", "none"} THEN FALSE
    ELSE IF v.kind = "list" THEN v.items # <<>>
    ELSE IF v.kind = "dict" THEN v.data # NoField \/ v.web # NoField \/ v.extra
    ELSE TRUE

\* d.get("data") or d.get("web") or default
DataOrWeb(d, default) ==
    IF TruthyValue(d.data) THEN d.data
    ELSE IF TruthyValue(d.web) THEN d.web
    ELSE default

normalize_results(res) ==
    IF res.kind = "list" THEN res
    ELSE IF res.kind = "dict" THEN DataOrWeb(res, res)
    ELSE IF res.kind = "obj" /\ res.web # NoField
    THEN IF TruthyValue(res.web) THEN res.web ELSE EmptyList
    ELSE IF res.kind = "obj" /\ res.dump.kind = "dict"
    THEN DataOrWeb(res.dump, EmptyList)
    ELSE EmptyList

NormInit ==
    /\ TextIdle
    /\ PipeIdle
    /\ \/ n_input \in DictItems \cup ObjItems \cup OtherItems /\ n_op = "item"
       \/ n_input \in Responses /\ n_op = "response"
    /\ n_out = PyNone

CallSafeGetUrl ==
    /\ n_op = "item"
    /\ n_op' = "safe_get_url"
    /\ n_out' = safe_get_url(n_input)
    /\ UNCHANGED <<n_input, textVars, pipeVars>>

CallSafeGetMarkdown ==
    /\ n_op = "item"
    /\ n_op' = "safe_get_markdown"
    /\ n_out' = safe_get_markdown(n_input)
    /\ UNCHANGED <<n_input, textVars, pipeVars>>

CallNormalizeResults ==
    /\ n_op = "response"
    /\ n_op' = "normalize_results"
    /\ n_out' = normalize_results(n_input)
    /\ UNCHANGED <<n_input, textVars, pipeVars>>

NormNext == CallSafeGetUrl \/ CallSafeGetMarkdown \/ CallNormalizeResults

SpecNormalize == NormInit /\ [][NormNext]_vars

(***************************************************************************)
(* C4: normalize_results, safe_get_url and safe_get_markdown never raise,  *)
(* whatever the shape of the response or of the item (a dict whose         *)
(* `metadata` or `data` is present but not a dict included): a missing url *)
(* resolves to None and a missing markdown to the empty string.            *)
(***************************************************************************)
NormaliserNeverRaises ==
    /\ n_op \in {"safe_get_url", "safe_get_markdown", "normalize_results"} => n_out # Raised
    /\ (n_op = "safe_get_markdown" /\ ~Truthy(n_out)) => n_out = ""

(***************************************************************************)
(* C9: for a dict item safe_get_url returns the first non-empty value of   *)
(* url, sourceURL, metadata.sourceURL, metadata.url, metadata.source_url,  *)
(* and None when none of them is non-empty; for an object item the first   *)
(* non-empty of its url and sourceURL attributes, then of its metadata     *)
(* object's attributes, og_url last.                                       *)
(***************************************************************************)
RECURSIVE FirstNonEmpty(_)
FirstNonEmpty(vs) ==
    IF vs = <<>> THEN PyNone
    ELSE IF Truthy(Head(vs)) THEN Head(vs)
    ELSE FirstNonEmpty(Tail(vs))

WellFormedMetadata(item) == item.metadata.kind \in {"absent", "none", "dict", "obj"}

MetadataField(item, k) ==
    IF item.metadata.kind \in {"dict", "obj"} THEN item.metadata[k] ELSE Absent

UrlPrecedence ==
    (n_op = "safe_get_url" /\ n_input.kind \in {"dict", "obj"} /\ WellFormedMetadata(n_input)) =>
        IF n_input.kind = "dict"
        THEN n_out = FirstNonEmpty(<<n_input.url, n_input.sourceURL,
                                     MetadataField(n_input, "sourceURL"),
                                     MetadataField(n_input, "url"),
                                     MetadataField(n_input, "source_url")>>)
        ELSE (Truthy(n_input.url) \/ Truthy(n_input.sourceURL) \/ n_input.metadata.kind = "obj") =>
                 /\ Truthy(n_out) =>
                        n_out = FirstNonEmpty(<<n_input.url, n_input.sourceURL,
                                                MetadataField(n_input, "source_url"),
                                                MetadataField(n_input, "sourceURL"),
                                                MetadataField(n_input, "url"),
                                                MetadataField(n_input, "og_url")>>)
                 /\ ~Truthy(n_out) =>
                        ~Truthy(FirstNonEmpty(<<n_input.url, n_input.sourceURL,
                                                MetadataField(n_input, "source_url"),
                                                MetadataField(n_input, "sourceURL"),
                                                MetadataField(n_input, "url"),
                                                MetadataField(n_input, "og_url")>>))

(***************************************************************************)
(* search_and_summarize                                                    *)
(***************************************************************************)
MaxCalls == 4
MaxLimit == 2
MaxSpecLimit == 1
MaxResults == 2
MaxSpecResults == 1

ReviewPool == {PlainItem, NestedItem, NoMarkdownItem}

SpecPool == {PlainItem, NoMarkdownItem}

\* The shapes in which the search backend hands back a list of results.
Shapes(seq) ==
    {ListOf(seq),
     [kind |-> "dict", data |-> ListOf(seq), web |-> NoField, extra |-> TRUE],
     [kind |-> "dict",
      data |-> [kind |-> "dict", data |-> NoField, web |-> ListOf(seq), extra |-> FALSE],
      web |-> NoField, extra |-> TRUE],
     [kind |-> "obj", web |-> ListOf(seq), dump |-> NoField]}

\* The text of a completion response: resp.text may be None or empty.
DocTexts == {PyNone, "", "summary"}

SpecTexts == {PyNone, "not json", "[]"}

FinalTexts == {PyNone, "report"}

allowed_doc_calls(n) == Max2(0, n - 2)

\* `for item in v`: a list yields its elements, a dict its keys (strings).
Iterable(v) == v.kind \in {"list", "dict"}

DictKeys(d) ==
    (IF d.extra THEN <<[kind |-> "other", truthy |-> TRUE]>> ELSE <<>>)
    \o (IF d.data # NoField THEN <<[kind |-> "other", truthy |-> TRUE]>> ELSE <<>>)
    \o (IF d.web # NoField THEN <<[kind |-> "other", truthy |-> TRUE]>> ELSE <<>>)

Elements(v) == IF v.kind = "list" THEN v.items ELSE DictKeys(v)

\* items = normalize_results(results), then the unwrapping of a dict that
\* holds its list under "web".
ReviewItems(res) ==
    LET n == normalize_results(res)
    IN  IF n.kind = "dict" /\ n.web # NoField THEN n.web ELSE n

\* json.loads(text): the parsed value, or a failure.
json_loads(t) ==
    IF t = "[]" THEN [ok |-> TRUE, value |-> EmptyList]
    ELSE [ok |-> FALSE, value |-> NoneField]

\* extract_specs_from_docs giving up with an empty list when parsing fails.
extract_specs_result_empty(t) ==
    IF json_loads(t).ok THEN json_loads(t).value ELSE EmptyList

\* The value extract_specs_from_docs returns for the response text.
extract_specs_result(t) ==
    IF json_loads(t).ok THEN json_loads(t).value ELSE [kind |-> "raw", raw |-> t]

\* The loop over SpecsItems[:specLimit]: the texts and urls collected, or an
\* exception out of one of the accessors.
RECURSIVE CollectSpecs(_)
CollectSpecs(seq) ==
    IF seq = <<>> THEN [raised |-> FALSE, texts |-> <<>>, urls |-> <<>>]
    ELSE LET s == Head(seq)
             url == safe_get_url(s)
             md == safe_get_markdown(s)
             rest == CollectSpecs(Tail(seq))
         IN  IF url = Raised \/ md = Raised \/ rest.raised
             THEN [raised |-> TRUE, texts |-> <<>>, urls |-> <<>>]
             ELSE IF Truthy(md)
             THEN [raised |-> FALSE, texts |-> <<md>> \o rest.texts,
                   urls |-> <<IF Truthy(url) THEN url ELSE "unknown">> \o rest.urls]
             ELSE rest

\* The exit test off by one.
LimitReached_after(sums, limit) == Len(sums) > limit

\* The loop's exit test.
LimitReached(sums, limit) == Len(sums) >= limit

PipeInit ==
    /\ TextIdle
    /\ NormIdle
    /\ pc = "start"
    /\ max_genai_calls \in 0..MaxCalls
    /\ searchLimit \in 0..MaxLimit
    /\ specLimit \in 0..MaxSpecLimit
    /\ doc_limit = 0
    /\ results = NoneField
    /\ items = NoneField
    /\ SpecsItems = NoneField
    /\ idx = 0
    /\ cur_url = PyNone
    /\ summaries = <<>>
    /\ specs_texts = <<>>
    /\ specs_urls = <<>>
    /\ spec_text = Absent
    /\ specs_structured = NoneField
    /\ final_text = Absent
    /\ calls = <<>>
    /\ inflight = 0
    /\ doc_texts = <<>>
    /\ error = "none"

\* Lines 221-233: the budget, then the first search request goes out.
Enter ==
    /\ pc = "start"
    /\ doc_limit' = Min2(searchLimit, allowed_doc_calls(max_genai_calls))
    /\ calls' = Append(calls, "search_reviews")
    /\ inflight' = inflight + 1
    /\ pc' = "search_reviews"
    /\ UNCHANGED <<max_genai_calls, searchLimit, specLimit, results, items, SpecsItems,
                   idx, cur_url, summaries, specs_texts, specs_urls, spec_text,
                   specs_structured, final_text, doc_texts, error, textVars, normVars>>

\* A backend call raises: nothing catches it.
Fail(at) ==
    /\ pc = at
    /\ inflight' = inflight - 1
    /\ error' = at
    /\ pc' = "raised"
    /\ UNCHANGED <<max_genai_calls, searchLimit, specLimit, doc_limit, results, items,
                   SpecsItems, idx, cur_url, summaries, specs_texts, specs_urls, spec_text,
                   specs_structured, final_text, calls, doc_texts, textVars, normVars>>

\* Line 233 returns, line 234 sends the second search request.
SearchReviewsReturns ==
    /\ pc = "search_reviews"
    /\ \E seq \in SeqsUpTo(ReviewPool, MaxResults) : \E r \in Shapes(seq) : results' = r
    /\ calls' = Append(calls, "search_specs")
    /\ inflight' = inflight
    /\ pc' = "search_specs"
    /\ UNCHANGED <<max_genai_calls, searchLimit, specLimit, doc_limit, items, SpecsItems,
                   idx, cur_url, summaries, specs_texts, specs_urls, spec_text,
                   specs_structured, final_text, doc_texts, error, textVars, normVars>>

SearchReviewsFails == Fail("search_reviews")

\* Line 234 returns; lines 236-243 normalise both responses.  `results` is
\* not read again.
SearchSpecsReturns ==
    /\ pc = "search_specs"
    /\ \E seq \in SeqsUpTo(SpecPool, MaxSpecResults) : \E r \in Shapes(seq) :
          SpecsItems' = normalize_results(r)
    /\ items' = ReviewItems(results)
    /\ results' = NoneField
    /\ summaries' = <<>>
    /\ idx' = 1
    /\ inflight' = inflight - 1
    /\ pc' = "loop"
    /\ UNCHANGED <<max_genai_calls, searchLimit, specLimit, doc_limit, cur_url,
                   specs_texts, specs_urls, spec_text, specs_structured, final_text,
                   calls, doc_texts, error, textVars, normVars>>

SearchSpecsFails == Fail("search_specs")

\* Lines 244-251: one pass of the loop head and body up to the model call;
\* then lines 256-264 and 267-316 when the loop is over.
LeaveLoop ==
    IF ~Iterable(SpecsItems)
    THEN /\ pc' = "raised"
         /\ error' = "internal"
         /\ UNCHANGED <<specs_texts, specs_urls, specs_structured, calls, inflight>>
    ELSE LET collected == CollectSpecs(PySliceTo(Elements(SpecsItems), specLimit))
         IN  IF SpecsItems.kind # "list" \/ collected.raised
             THEN /\ pc' = "raised"
                  /\ error' = "internal"
                  /\ UNCHANGED <<specs_texts, specs_urls, specs_structured, calls, inflight>>
             ELSE /\ specs_texts' = collected.texts
                  /\ specs_urls' = collected.urls
                  /\ error' = error
                  /\ inflight' = inflight + 1
                  /\ IF collected.texts # <<>>
                     THEN /\ calls' = Append(calls, "spec")
                          /\ pc' = "spec"
                          /\ UNCHANGED specs_structured
                     ELSE /\ specs_structured' = EmptyList
                          /\ calls' = Append(calls, "final")
                          /\ pc' = "final"

LoopStep ==
    /\ pc = "loop"
    /\ IF ~Iterable(items)
       THEN /\ pc' = "raised"
            /\ error' = "internal"
            /\ UNCHANGED <<idx, cur_url, doc_texts, specs_texts, specs_urls,
                           specs_structured, calls, inflight>>
       ELSE IF idx > Len(Elements(items)) \/ LimitReached(summaries, doc_limit)
       THEN /\ LeaveLoop
            /\ UNCHANGED <<idx, cur_url, doc_texts>>
       ELSE LET item == Elements(items)[idx]
                url == safe_get_url(item)
                md == safe_get_markdown(item)
            IN  IF url = Raised \/ md = Raised
                THEN /\ pc' = "raised"
                     /\ error' = "internal"
                     /\ UNCHANGED <<idx, cur_url, doc_texts, specs_texts, specs_urls,
                                    specs_structured, calls, inflight>>
                ELSE IF ~Truthy(md)
                THEN /\ idx' = idx + 1
                     /\ doc_texts' = Append(doc_texts, Absent)
                     /\ UNCHANGED <<pc, error, cur_url, specs_texts, specs_urls,
                                    specs_structured, calls, inflight>>
                ELSE /\ cur_url' = url
                     /\ calls' = Append(calls, "doc")
                     /\ inflight' = inflight + 1
                     /\ pc' = "doc"
                     /\ UNCHANGED <<idx, error, doc_texts, specs_texts, specs_urls,
                                    specs_structured>>
    /\ UNCHANGED <<max_genai_calls, searchLimit, specLimit, doc_limit, results, items,
                   SpecsItems, summaries, spec_text, final_text, textVars, normVars>>

\* Lines 147 and 252-253: the document summary comes back.
SummaryReturns ==
    /\ pc = "doc"
    /\ \E t \in DocTexts :
          /\ doc_texts' = Append(doc_texts, t)
          /\ summaries' = IF Truthy(t)
                          THEN Append(summaries, [url |-> cur_url, summary |-> t])
                          ELSE summaries
    /\ idx' = idx + 1
    /\ inflight' = inflight - 1
    /\ pc' = "loop"
    /\ UNCHANGED <<max_genai_calls, searchLimit, specLimit, doc_limit, results, items,
                   SpecsItems, cur_url, specs_texts, specs_urls, spec_text,
                   specs_structured, final_text, calls, error, textVars, normVars>>

SummaryFails == Fail("doc")

\* Lines 193-199: the spec extraction comes back and is parsed; lines
\* 267-316 send the final request.
SpecsReturn ==
    /\ pc = "spec"
    /\ \E t \in SpecTexts :
          /\ spec_text' = t
          /\ specs_structured' = extract_specs_result(t)
    /\ calls' = Append(calls, "final")
    /\ inflight' = inflight
    /\ pc' = "final"
    /\ UNCHANGED <<max_genai_calls, searchLimit, specLimit, doc_limit, results, items,
                   SpecsItems, idx, cur_url, summaries, specs_texts, specs_urls,
                   final_text, doc_texts, error, textVars, normVars>>

SpecsFail == Fail("spec")

\* FinalReturns with a retry of the synthesis call when the text is empty.
FinalReturns_retry ==
    /\ pc = "final"
    /\ \E t \in FinalTexts :
          /\ final_text' = t
          /\ IF Truthy(t)
             THEN calls' = calls /\ inflight' = inflight - 1 /\ pc' = "returned"
             ELSE calls' = Append(calls, "final") /\ inflight' = inflight /\ pc' = "final"
    /\ UNCHANGED <<max_genai_calls, searchLimit, specLimit, doc_limit, results, items,
                   SpecsItems, idx, cur_url, summaries, specs_texts, specs_urls, spec_text,
                   specs_structured, doc_texts, error, textVars, normVars>>

\* Lines 320-321.
FinalReturns ==
    /\ pc = "final"
    /\ \E t \in FinalTexts : final_text' = t
    /\ inflight' = inflight - 1
    /\ pc' = "returned"
    /\ UNCHANGED <<max_genai_calls, searchLimit, specLimit, doc_limit, results, items,
                   SpecsItems, idx, cur_url, summaries, specs_texts, specs_urls, spec_text,
                   specs_structured, calls, doc_texts, error, textVars, normVars>>

FinalFails == Fail("final")

Next ==
    \/ Enter
    \/ SearchReviewsReturns
    \/ SearchReviewsFails
    \/ SearchSpecsReturns
    \/ SearchSpecsFails
    \/ LoopStep
    \/ SummaryReturns
    \/ SummaryFails
    \/ SpecsReturn
    \/ SpecsFail
    \/ FinalReturns
    \/ FinalFails

Spec == PipeInit /\ [][Next]_vars

(***************************************************************************)
(* Counting the calls of a run.                                            *)
(***************************************************************************)
Count(seq, k) == Cardinality({i \in 1..Len(seq) : seq[i] = k})

CompletionCalls ==
    Cardinality({i \in 1..Len(calls) : calls[i] \in {"doc", "spec", "final"}})

(***************************************************************************)
(* C1: the number of document-summary model calls of a run never exceeds   *)
(* min(searchLimit, max(0, max_genai_calls - 2)), however many results the *)
(* search backend returns and whatever text the completion backend gives.  *)
(***************************************************************************)
DocCallsWithinLimit ==
    Count(calls, "doc") <= Min2(searchLimit, Max2(0, max_genai_calls - 2))

(***************************************************************************)
(* C2: the completion-backend calls of a run (document summaries, spec     *)
(* extraction, final synthesis) number at most max_genai_calls, for every  *)
(* value of max_genai_calls, 0 and 1 included.                             *)
(***************************************************************************)
TotalCallsWithinBudget == CompletionCalls <= max_genai_calls

(***************************************************************************)
(* C3: the calls of a run are strictly ordered and never overlap: the two  *)
(* searches, then the document summaries, then at most one spec            *)
(* extraction, then the final synthesis, after which nothing is issued; a  *)
(* run that returns has issued exactly one final synthesis call.           *)
(***************************************************************************)
Rank ==
    [search_reviews |-> 1, search_specs |-> 2, doc |-> 3, spec |-> 4, final |-> 5]

CallsStrictlyOrdered ==
    /\ inflight \in {0, 1}
    /\ \A i \in 1..(Len(calls) - 1) :
          /\ Rank[calls[i]] <= Rank[calls[i + 1]]
          /\ Rank[calls[i]] = Rank[calls[i + 1]] => calls[i] = "doc"
    /\ CompletionCalls > 0 => Count(calls, "search_reviews") = 1 /\ Count(calls, "search_specs") = 1
    /\ pc = "returned" =>
          /\ Count(calls, "final") = 1
          /\ calls[Len(calls)] = "final"
          /\ inflight = 0

OrderedRunWitness ==
    /\ pc = "returned"
    /\ Count(calls, "doc") >= 2
    /\ Count(calls, "spec") = 1

(***************************************************************************)
(* C8: when a spec document has markdown and the spec-extraction response  *)
(* is not valid JSON, extract_specs_from_docs returns {"raw": text}, the   *)
(* final synthesis call is still issued and the run returns its report; a  *)
(* search or completion call that raises ends the run with no report.      *)
(***************************************************************************)
BackendCalls == {"search_reviews", "search_specs", "doc", "spec", "final"}

SpecParseFailureDegrades ==
    /\ (spec_text # Absent /\ spec_text # "[]") =>
          /\ specs_texts # <<>>
          /\ specs_structured = [kind |-> "raw", raw |-> spec_text]
          /\ calls[Len(calls)] = "final"
          /\ pc \in {"final", "returned"} \/ (pc = "raised" /\ error = "final")
    /\ error \in BackendCalls =>
          /\ pc = "raised"
          /\ final_text = Absent
          /\ calls[Len(calls)] = error
          /\ inflight = 0
    /\ pc = "returned" => error = "none" /\ final_text \in FinalTexts

RawSpecsWitness ==
    /\ pc = "returned"
    /\ spec_text = "not json"
    /\ specs_structured = [kind |-> "raw", raw |-> "not json"]
    /\ final_text = "report"

(***************************************************************************)
(* C10: summaries holds, in result order, one {url, summary} entry for     *)
(* each of the first doc_limit review results with non-empty markdown and  *)
(* a non-empty model summary; a result with empty markdown is skipped      *)
(* without a model call; the list never holds more than max(0, doc_limit)  *)
(* entries.                                                                *)
(***************************************************************************)
\* The entries of the results looked at so far, given the summary texts
\* (Absent where no call was made).
RECURSIVE Entries(_, _)
Entries(its, texts) ==
    IF texts = <<>> THEN <<>>
    ELSE LET n == Len(texts)
             before == Entries(its, SubSeq(texts, 1, n - 1))
         IN  IF Truthy(safe_get_markdown(its[n])) /\ Truthy(texts[n])
             THEN Append(before, [url |-> safe_get_url(its[n]), summary |-> texts[n]])
             ELSE before

SummariesMatchResults ==
    (pc \in {"loop", "doc", "spec", "final", "returned"} /\ Iterable(items)) =>
        LET its == Elements(items)
        IN  /\ Len(summaries) <= Max2(0, doc_limit)
            /\ Len(doc_texts) <= Len(its)
            /\ summaries = Entries(its, doc_texts)
            /\ \A i \in 1..Len(doc_texts) :
                  ~Truthy(safe_get_markdown(its[i])) => doc_texts[i] = Absent
            /\ Count(calls, "doc") =
                  Cardinality({i \in 1..Len(doc_texts) : doc_texts[i] # Absent})
                  + (IF pc = "doc" THEN 1 ELSE 0)
            /\ pc \in {"spec", "final", "returned"} =>
                  Len(doc_texts) = Len(its) \/ Len(summaries) >= doc_limit

TwoSummariesWitness ==
    /\ pc = "returned"
    /\ doc_limit >= 2
    /\ Len(summaries) = 2
    /\ summaries[1].url # summaries[2].url

====
